---- MODULE Spec2Model ----
(***************************************************************************)
(* POST /api/ocr of the fertility backend (src/server.js): validate the    *)
(* request, submit the document to Azure Document Intelligence, poll the   *)
(* operation-location until a terminal status or 120 attempts, respond.    *)
(* Every `await` of the handler is a step boundary; the provider's answers *)
(* and the caller's disconnect are chosen by the environment.              *)
(***************************************************************************)
EXTENDS Integers, Sequences, FiniteSets, TLC

\* ---------------------------------------------------------------- bounds
NumRefs == 2        \* distinct operation-location values the provider hands out
NumTexts == 2       \* distinct non-empty recognized texts
MaxConcPolls == 2   \* status queries per request followed when two requests interleave

\* ---------------------------------------------------- program constants
MaxAttempts == 120  \* for (let i = 0; i < 120; i++)
SleepMs == 1500     \* await sleep(1500)
Accepted == 202     \* submitResp.status !== 202

\* ------------------------------------------------------------ value sets
Reqs == {1, 2}                  \* request slots of the server
Unset == ""                     \* an environment variable that is not set
EnvValues == {Unset, "set"}
NoRef == 0                      \* operation-location header absent or empty
Refs == 1..NumRefs
HttpStatuses == {200, 202, 400, 500}   \* status lines of the submit response
PollHttpStatuses == {200, 404, 500}    \* status lines of a poll response
Bodies == {"", "InvalidRequest"}
Absent == "<absent>"            \* a JSON field that is not there
NoAnalyzeResult == "<no analyzeResult>"
TextOf(n) == IF n = 1 THEN "Page 1: hello" ELSE IF n = 2 THEN "Page 2: world" ELSE "Page 3: again"
Contents == {NoAnalyzeResult, Absent, ""} \cup {TextOf(n) : n \in 1..NumTexts}
PollStatuses == {"succeeded", "failed", "running", "notStarted", Absent}
ErrorDetails == {Absent, "InternalServerError"}

\* What pollResp.json() is asked to parse: a JSON object, JSON null, or a
\* body that is no JSON at all.
JsonObjects == [kind : {"object"}, status : PollStatuses, content : Contents, error : ErrorDetails]
Null == [kind |-> "null", status |-> Absent, content |-> NoAnalyzeResult, error |-> Absent]
Invalid == [kind |-> "invalid", status |-> Absent, content |-> NoAnalyzeResult, error |-> Absent]
PollBodies == JsonObjects \cup {Null, Invalid}

NoSubmitResp == [status |-> 0, opLocation |-> NoRef, body |-> ""]
NoPollResp == [http |-> 0, body |-> Null]
\* /api/analyze: the request body, the key read from the environment, the answer
TextInputs == {Absent, " ", "Hb 12.1 g/dL"}
KeyInputs == {Absent, "sk-client"}
Reports == {"", "FIRST VISIT NOTE"}
NoAnalysis ==
  [pc |-> "idle", text |-> Absent, bodyKey |-> Absent, apiKey |-> Unset,
   ok |-> FALSE, code |-> 0, error |-> "", report |-> Absent]
NoResponse == [code |-> 0, error |-> "", status |-> 0, details |-> "", data |-> Null, text |-> Absent]

VARIABLES
  AZURE_DI_ENDPOINT,  \* process.env.AZURE_DI_ENDPOINT, read once at start-up
  AZURE_DI_KEY,       \* process.env.AZURE_DI_KEY, read once at start-up
  pc,                 \* where each handler invocation is suspended
  file,               \* req.file?.buffer is there
  submitResp,         \* submitResp of the invocation
  opLocation,         \* opLocation
  i,                  \* the loop counter
  finalData,          \* finalData
  pollResp,           \* pollResp / data of the current iteration
  res,                \* the response sent to the caller
  responsesSent,      \* number of res.json calls
  submitsSent,        \* POST ...:analyze requests sent to the provider
  pollsSent,          \* GET opLocation requests sent to the provider
  inFlight,           \* status queries sent and not yet answered
  pollTarget,         \* the URL of the latest status query
  waited,             \* total milliseconds spent in sleep
  cancelled,          \* the caller has gone away
  runningSeen,        \* poll responses delivered with a non-terminal status
  lastStatus,         \* the status field of the latest poll response delivered
  lastHttp,           \* the HTTP status of the latest poll response delivered
  analysis,           \* the /api/analyze invocation of each request slot
  path                \* which branch produced the response

config == <<AZURE_DI_ENDPOINT, AZURE_DI_KEY>>
locals == <<file, submitResp, opLocation, i, finalData, pollResp>>
wire == <<submitsSent, pollsSent, inFlight, pollTarget, waited>>
seen == <<runningSeen, lastStatus, lastHttp>>
vars == <<config, pc, locals, res, responsesSent, wire, seen, cancelled, path, analysis>>

Init ==
  /\ AZURE_DI_ENDPOINT \in EnvValues
  /\ AZURE_DI_KEY \in EnvValues
  /\ pc = [r \in Reqs |-> "idle"]
  /\ file = [r \in Reqs |-> FALSE]
  /\ submitResp = [r \in Reqs |-> NoSubmitResp]
  /\ opLocation = [r \in Reqs |-> NoRef]
  /\ i = [r \in Reqs |-> 0]
  /\ finalData = [r \in Reqs |-> Null]
  /\ pollResp = [r \in Reqs |-> NoPollResp]
  /\ res = [r \in Reqs |-> NoResponse]
  /\ responsesSent = [r \in Reqs |-> 0]
  /\ submitsSent = [r \in Reqs |-> 0]
  /\ pollsSent = [r \in Reqs |-> 0]
  /\ inFlight = [r \in Reqs |-> 0]
  /\ pollTarget = [r \in Reqs |-> NoRef]
  /\ waited = [r \in Reqs |-> 0]
  /\ cancelled = [r \in Reqs |-> FALSE]
  /\ runningSeen = [r \in Reqs |-> 0]
  /\ lastStatus = [r \in Reqs |-> "none"]
  /\ lastHttp = [r \in Reqs |-> 0]
  /\ analysis = [r \in Reqs |-> NoAnalysis]
  /\ path = [r \in Reqs |-> "none"]

\* ------------------------------------------------------- the code's tests
\* !AZURE_DI_ENDPOINT || !AZURE_DI_KEY
MissingEnv == AZURE_DI_ENDPOINT = Unset \/ AZURE_DI_KEY = Unset

\* !submitResp.ok, negated: any 2xx status passes for an accepted job
SubmitAccepted_AnyOk(status) == status \in 200..299

\* submitResp.status !== 202, negated
SubmitAccepted(status) == status = Accepted

\* The header is taken as it comes, without the test for its absence.
HasOpLocation_Always(ref) == TRUE

\* !opLocation, negated: null and '' are both falsy
HasOpLocation(ref) == ref # NoRef

\* i < 119: the budget ends one query early
LoopCond_OneShort(n) == n < MaxAttempts - 1

\* i <= 120: one iteration too many
LoopCond_OffByOne(n) == n <= MaxAttempts

\* i < 120
LoopCond(n) == n < MaxAttempts

\* data.status === 'succeeded'
IsSucceeded(data) == data.status = "succeeded"

\* data.status === 'error': the provider's word is 'failed'
IsFailed_Typo(data) == data.status = "error"

\* data.status !== 'running': every status that is not 'running' ends the job
IsFailed_NotRunning(data) == data.status # "running"

\* data.status === 'failed'
IsFailed(data) == data.status = "failed"

\* the timeout test made on the text instead of on the result
NoFinalData_ByContent(fd) == fd = Null \/ fd.content \in {NoAnalyzeResult, Absent, ""}

\* !finalData
NoFinalData(fd) == fd = Null

\* finalData?.content || '': the field is looked up one level too high
ExtractText_WrongField(fd) == ""

\* finalData?.analyzeResult?.content || ''
ExtractText(fd) == IF fd.content \in {NoAnalyzeResult, Absent, ""} THEN "" ELSE fd.content

\* ------------------------------------------------------------ responses
MissingEnvResponse == [NoResponse EXCEPT !.code = 500, !.error = "Missing Azure DI env vars"]
NoFileResponse == [NoResponse EXCEPT !.code = 400, !.error = "No file uploaded"]
SubmitFailedResponse(status, txt) ==
  [NoResponse EXCEPT !.code = 500, !.error = "Azure DI submit failed", !.status = status, !.details = txt]
MissingOpLocationResponse == [NoResponse EXCEPT !.code = 500, !.error = "Missing Operation-Location"]
FailedResponse(data) == [NoResponse EXCEPT !.code = 500, !.error = "Azure DI failed", !.data = data]
TimeoutResponse == [NoResponse EXCEPT !.code = 504, !.error = "Azure DI timeout"]
TextResponse(text) == [NoResponse EXCEPT !.code = 200, !.text = text]
ExceptionResponse(e) == [NoResponse EXCEPT !.code = 500, !.error = "Azure DI exception", !.details = e]

\* return res.status(..).json(..): the handler ends
Respond(r, response, branch) ==
  /\ res' = [res EXCEPT ![r] = response]
  /\ responsesSent' = [responsesSent EXCEPT ![r] = @ + 1]
  /\ pc' = [pc EXCEPT ![r] = "done"]
  /\ path' = [path EXCEPT ![r] = branch]

\* catch (e) { return res.status(500).json({ error: 'Azure DI exception', details: String(e) }) }
Catch(r, e, branch) == Respond(r, ExceptionResponse(e), branch)

\* The statements after the loop without the 504 answer: the handler
\* returns and the caller is left without a response.
AfterLoop_SilentTimeout(r, fd) ==
  IF NoFinalData(fd)
  THEN /\ pc' = [pc EXCEPT ![r] = "returned"]
       /\ UNCHANGED <<res, responsesSent, path>>
  ELSE Respond(r, TextResponse(ExtractText(fd)), "succeeded")

\* the statements after the loop
AfterLoop(r, fd) ==
  IF NoFinalData(fd)
  THEN Respond(r, TimeoutResponse, "timedOut")
  ELSE Respond(r, TextResponse(ExtractText(fd)), "succeeded")

\* the loop test, then either `await sleep(1500)` or the statements after the loop
LoopTest(r, n, fd) ==
  IF LoopCond(n)
  THEN /\ pc' = [pc EXCEPT ![r] = "sleeping"]
       /\ UNCHANGED <<res, responsesSent, path>>
  ELSE AfterLoop(r, fd)

\* -------------------------------------------------------------- actions
\* The request arrives; the handler runs up to `await fetch(submitUrl, ..)`.
OcrRequest(r) ==
  /\ pc[r] = "idle"
  /\ analysis[r].pc = "idle"
  /\ \E f \in BOOLEAN :
       /\ file' = [file EXCEPT ![r] = f]
       /\ IF MissingEnv
          THEN /\ Respond(r, MissingEnvResponse, "missingEnv")
               /\ UNCHANGED submitsSent
          ELSE IF ~f
          THEN /\ Respond(r, NoFileResponse, "noFile")
               /\ UNCHANGED submitsSent
          ELSE /\ submitsSent' = [submitsSent EXCEPT ![r] = @ + 1]
               /\ pc' = [pc EXCEPT ![r] = "awaitSubmit"]
               /\ UNCHANGED <<res, responsesSent, path>>
  /\ UNCHANGED <<config, analysis, submitResp, opLocation, i, finalData, pollResp,
                 pollsSent, inFlight, pollTarget, waited, seen, cancelled>>

\* fetch(submitUrl) rejects and the submit is sent again (up to 3 times)
SubmitRejects_Retry(r) ==
  /\ pc[r] = "awaitSubmit"
  /\ IF submitsSent[r] < 3
     THEN /\ submitsSent' = [submitsSent EXCEPT ![r] = @ + 1]
          /\ UNCHANGED <<pc, res, responsesSent, path>>
     ELSE /\ Catch(r, "FetchError", "submitTransport")
          /\ UNCHANGED submitsSent
  /\ UNCHANGED <<config, analysis, locals, pollsSent, inFlight, pollTarget, waited, seen, cancelled>>

\* fetch(submitUrl) rejects: network unreachable, TLS failure
SubmitRejects(r) ==
  /\ pc[r] = "awaitSubmit"
  /\ Catch(r, "FetchError", "submitTransport")
  /\ UNCHANGED <<config, analysis, locals, wire, seen, cancelled>>

\* opLocation declared at module scope: every request in flight polls the
\* reference of the latest submit
SubmitResolves_SharedOpLocation(r) ==
  /\ pc[r] = "awaitSubmit"
  /\ \E st \in HttpStatuses, ref \in Refs \cup {NoRef}, txt \in Bodies :
       /\ submitResp' = [submitResp EXCEPT ![r] = [status |-> st, opLocation |-> ref, body |-> txt]]
       /\ IF ~SubmitAccepted(st)
          THEN /\ pc' = [pc EXCEPT ![r] = "awaitText"]
               /\ UNCHANGED <<res, responsesSent, path, opLocation, i, finalData>>
          ELSE IF ~HasOpLocation(ref)
          THEN /\ Respond(r, MissingOpLocationResponse, "submitMalformed")
               /\ UNCHANGED <<opLocation, i, finalData>>
          ELSE /\ opLocation' = [s \in Reqs |-> ref]
               /\ finalData' = [finalData EXCEPT ![r] = Null]
               /\ i' = [i EXCEPT ![r] = 0]
               /\ LoopTest(r, 0, Null)
  /\ UNCHANGED <<config, analysis, file, pollResp, wire, seen, cancelled>>

\* fetch(submitUrl) resolves with a status line and headers
SubmitResolves(r) ==
  /\ pc[r] = "awaitSubmit"
  /\ \E st \in HttpStatuses, ref \in Refs \cup {NoRef}, txt \in Bodies :
       /\ submitResp' = [submitResp EXCEPT ![r] = [status |-> st, opLocation |-> ref, body |-> txt]]
       /\ IF ~SubmitAccepted(st)
          THEN /\ pc' = [pc EXCEPT ![r] = "awaitText"]
               /\ UNCHANGED <<res, responsesSent, path, opLocation, i, finalData>>
          ELSE IF ~HasOpLocation(ref)
          THEN /\ Respond(r, MissingOpLocationResponse, "submitMalformed")
               /\ UNCHANGED <<opLocation, i, finalData>>
          ELSE /\ opLocation' = [opLocation EXCEPT ![r] = ref]
               /\ finalData' = [finalData EXCEPT ![r] = Null]
               /\ i' = [i EXCEPT ![r] = 0]
               /\ LoopTest(r, 0, Null)
  /\ UNCHANGED <<config, analysis, file, pollResp, wire, seen, cancelled>>

\* await submitResp.text() resolves: the rejection is reported
SubmitTextResolves(r) ==
  /\ pc[r] = "awaitText"
  /\ Respond(r, SubmitFailedResponse(submitResp[r].status, submitResp[r].body), "submitRejected")
  /\ UNCHANGED <<config, analysis, locals, wire, seen, cancelled>>

\* await submitResp.text() rejects: the connection broke while reading the body
SubmitTextRejects(r) ==
  /\ pc[r] = "awaitText"
  /\ Catch(r, "FetchError", "submitTransport")
  /\ UNCHANGED <<config, analysis, locals, wire, seen, cancelled>>

\* Polling driven by a repeating timer: a query goes out every 1500 ms
\* whether or not the previous one has been answered.
SleepElapses_Overlapping(r) ==
  /\ pc[r] \in {"sleeping", "awaitPoll"}
  /\ pollsSent[r] < MaxAttempts
  /\ waited' = [waited EXCEPT ![r] = @ + SleepMs]
  /\ pollsSent' = [pollsSent EXCEPT ![r] = @ + 1]
  /\ inFlight' = [inFlight EXCEPT ![r] = @ + 1]
  /\ pollTarget' = [pollTarget EXCEPT ![r] = opLocation[r]]
  /\ pc' = [pc EXCEPT ![r] = "awaitPoll"]
  /\ UNCHANGED <<config, analysis, locals, res, responsesSent, submitsSent, seen, cancelled, path>>

\* The wait grows with the attempt index: sleep(1500 * (i + 1)).
SleepElapses_Backoff(r) ==
  /\ pc[r] = "sleeping"
  /\ waited' = [waited EXCEPT ![r] = @ + SleepMs * (i[r] + 1)]
  /\ pollsSent' = [pollsSent EXCEPT ![r] = @ + 1]
  /\ inFlight' = [inFlight EXCEPT ![r] = @ + 1]
  /\ pollTarget' = [pollTarget EXCEPT ![r] = opLocation[r]]
  /\ pc' = [pc EXCEPT ![r] = "awaitPoll"]
  /\ UNCHANGED <<config, analysis, locals, res, responsesSent, submitsSent, seen, cancelled, path>>

\* The timer of sleep(1500) fires; the handler runs on to `await fetch(opLocation, ..)`.
SleepElapses(r) ==
  /\ pc[r] = "sleeping"
  /\ waited' = [waited EXCEPT ![r] = @ + SleepMs]
  /\ pollsSent' = [pollsSent EXCEPT ![r] = @ + 1]
  /\ inFlight' = [inFlight EXCEPT ![r] = @ + 1]
  /\ pollTarget' = [pollTarget EXCEPT ![r] = opLocation[r]]
  /\ pc' = [pc EXCEPT ![r] = "awaitPoll"]
  /\ UNCHANGED <<config, analysis, locals, res, responsesSent, submitsSent, seen, cancelled, path>>

\* A rejected status query taken as one more attempt: the loop goes on.
PollRejects_Retried(r) ==
  /\ pc[r] = "awaitPoll"
  /\ inFlight' = [inFlight EXCEPT ![r] = @ - 1]
  /\ lastStatus' = [lastStatus EXCEPT ![r] = "rejected"]
  /\ i' = [i EXCEPT ![r] = @ + 1]
  /\ LoopTest(r, i[r] + 1, finalData[r])
  /\ UNCHANGED <<config, analysis, file, submitResp, opLocation, finalData, pollResp,
                 submitsSent, pollsSent, pollTarget, waited, runningSeen, lastHttp, cancelled>>

\* fetch(opLocation) rejects
PollRejects(r) ==
  /\ pc[r] = "awaitPoll"
  /\ inFlight' = [inFlight EXCEPT ![r] = @ - 1]
  /\ lastStatus' = [lastStatus EXCEPT ![r] = "rejected"]
  /\ Catch(r, "FetchError", "pollTransport")
  /\ UNCHANGED <<config, analysis, locals, submitsSent, pollsSent, pollTarget, waited,
                 runningSeen, lastHttp, cancelled>>

\* With `if (!pollResp.ok) throw ..` after the fetch: an error HTTP status
\* ends the invocation in the catch block.
PollResolves_ChecksOk(r) ==
  /\ pc[r] = "awaitPoll"
  /\ \E http \in PollHttpStatuses, body \in PollBodies :
       /\ pollResp' = [pollResp EXCEPT ![r] = [http |-> http, body |-> body]]
       /\ lastStatus' = [lastStatus EXCEPT ![r] = IF body.kind = "object" THEN body.status ELSE body.kind]
       /\ lastHttp' = [lastHttp EXCEPT ![r] = http]
       /\ runningSeen' = [runningSeen EXCEPT ![r] =
            IF body.kind = "object" /\ body.status \notin {"succeeded", "failed"} THEN @ + 1 ELSE @]
       /\ IF http = 200
          THEN /\ pc' = [pc EXCEPT ![r] = "awaitJson"]
               /\ UNCHANGED <<res, responsesSent, path>>
          ELSE Catch(r, "HttpError", "pollTransport")
  /\ inFlight' = [inFlight EXCEPT ![r] = @ - 1]
  /\ UNCHANGED <<config, analysis, file, submitResp, opLocation, i, finalData,
                 submitsSent, pollsSent, pollTarget, waited, cancelled>>

\* fetch(opLocation) resolves, whatever the HTTP status; the handler goes on
\* to `await pollResp.json()`
PollResolves(r) ==
  /\ pc[r] = "awaitPoll"
  /\ \E http \in PollHttpStatuses, body \in PollBodies :
       /\ pollResp' = [pollResp EXCEPT ![r] = [http |-> http, body |-> body]]
       /\ lastStatus' = [lastStatus EXCEPT ![r] = IF body.kind = "object" THEN body.status ELSE body.kind]
       /\ lastHttp' = [lastHttp EXCEPT ![r] = http]
       /\ runningSeen' = [runningSeen EXCEPT ![r] =
            IF body.kind = "object" /\ body.status \notin {"succeeded", "failed"} THEN @ + 1 ELSE @]
  /\ inFlight' = [inFlight EXCEPT ![r] = @ - 1]
  /\ pc' = [pc EXCEPT ![r] = "awaitJson"]
  /\ UNCHANGED <<config, analysis, file, submitResp, opLocation, i, finalData, res, responsesSent,
                 submitsSent, pollsSent, pollTarget, waited, cancelled, path>>

\* pollResp.json() rejects: the body is no JSON
PollJsonRejects(r) ==
  /\ pc[r] = "awaitJson"
  /\ pollResp[r].body.kind = "invalid"
  /\ Catch(r, "SyntaxError", "pollBadBody")
  /\ UNCHANGED <<config, analysis, locals, wire, seen, cancelled>>

\* The 'failed' branch without its `return`: the response is sent and the
\* loop goes on.
PollJsonResolves_NoReturn(r) ==
  /\ pc[r] = "awaitJson"
  /\ pollResp[r].body.kind # "invalid"
  /\ LET data == pollResp[r].body IN
       IF data.kind = "null"
       THEN /\ Catch(r, "TypeError", "pollBadBody")
            /\ UNCHANGED <<i, finalData, pollResp>>
       ELSE IF IsSucceeded(data)
       THEN /\ finalData' = [finalData EXCEPT ![r] = data]
            /\ AfterLoop(r, data)
            /\ UNCHANGED <<i, pollResp>>
       ELSE IF IsFailed(data) /\ LoopCond(i[r] + 1)
       THEN /\ res' = [res EXCEPT ![r] = FailedResponse(data)]
            /\ responsesSent' = [responsesSent EXCEPT ![r] = @ + 1]
            /\ path' = [path EXCEPT ![r] = "providerFailed"]
            /\ i' = [i EXCEPT ![r] = @ + 1]
            /\ pc' = [pc EXCEPT ![r] = "sleeping"]
            /\ UNCHANGED <<finalData, pollResp>>
       ELSE /\ i' = [i EXCEPT ![r] = @ + 1]
            /\ pollResp' = [pollResp EXCEPT ![r] = NoPollResp]
            /\ LoopTest(r, i[r] + 1, finalData[r])
            /\ UNCHANGED finalData
  /\ UNCHANGED <<config, analysis, file, submitResp, opLocation, wire, seen, cancelled>>

\* pollResp.json() resolves to `data`; the handler dispatches on data.status
\* and runs to the next await or to its response
PollJsonResolves(r) ==
  /\ pc[r] = "awaitJson"
  /\ pollResp[r].body.kind # "invalid"
  /\ LET data == pollResp[r].body IN
       IF data.kind = "null"
       THEN /\ Catch(r, "TypeError", "pollBadBody")    \* null.status throws
            /\ UNCHANGED <<i, finalData, pollResp>>
       ELSE IF IsSucceeded(data)
       THEN /\ finalData' = [finalData EXCEPT ![r] = data]
            /\ AfterLoop(r, data)                       \* break
            /\ UNCHANGED <<i, pollResp>>
       ELSE IF IsFailed(data)
       THEN /\ Respond(r, FailedResponse(data), "providerFailed")
            /\ UNCHANGED <<i, finalData, pollResp>>
       ELSE /\ i' = [i EXCEPT ![r] = @ + 1]             \* i++
            /\ pollResp' = [pollResp EXCEPT ![r] = NoPollResp]
            /\ LoopTest(r, i[r] + 1, finalData[r])
            /\ UNCHANGED finalData
  /\ UNCHANGED <<config, analysis, file, submitResp, opLocation, wire, seen, cancelled>>

\* The caller gives up while its request is being served: its deadline
\* expires or it disconnects. Nothing in the handler listens for it.
Cancel(r) ==
  /\ pc[r] \notin {"idle", "done"}
  /\ ~cancelled[r]
  /\ cancelled' = [cancelled EXCEPT ![r] = TRUE]
  /\ UNCHANGED <<config, analysis, pc, locals, res, responsesSent, wire, seen, path>>

\* ===== Analyze =====
\* res.status(code).json({ error, .. }) or res.json({ success: true, report })
AnalyzeRespond(r, code, error, report) ==
  analysis' = [analysis EXCEPT ![r].pc = "done", ![r].code = code,
                               ![r].error = error, ![r].report = report]

\* !text || !String(text).trim()
NoText(text) == text \in {Absent, "", " "}

\* POST /api/analyze arrives; the handler runs up to `await fetch(..)`. The
\* key is process.env.ANTHROPIC_API_KEY as read at this request; a key in
\* the request body is not looked at.
AnalyzeRequest(r) ==
  /\ pc[r] = "idle"
  /\ analysis[r].pc = "idle"
  /\ \E text \in TextInputs, bodyKey \in KeyInputs, envKey \in EnvValues :
       LET a == [analysis[r] EXCEPT !.text = text, !.bodyKey = bodyKey, !.apiKey = envKey] IN
       IF NoText(text)
       THEN analysis' = [analysis EXCEPT ![r] =
              [a EXCEPT !.pc = "done", !.code = 400, !.error = "No text provided"]]
       ELSE IF envKey = Unset
       THEN analysis' = [analysis EXCEPT ![r] =
              [a EXCEPT !.pc = "done", !.code = 400, !.error = "No API key provided"]]
       ELSE analysis' = [analysis EXCEPT ![r] = [a EXCEPT !.pc = "awaitClaude"]]
  /\ UNCHANGED <<config, pc, locals, res, responsesSent, wire, seen, cancelled, path>>

\* fetch('https://api.anthropic.com/v1/messages') rejects
ClaudeRejects(r) ==
  /\ analysis[r].pc = "awaitClaude"
  /\ AnalyzeRespond(r, 500, "Failed to analyze document", Absent)
  /\ UNCHANGED <<config, pc, locals, res, responsesSent, wire, seen, cancelled, path>>

\* the fetch resolves; the handler goes on to read the body with
\* claudeResponse.text() or claudeResponse.json()
ClaudeResolves(r) ==
  /\ analysis[r].pc = "awaitClaude"
  /\ \E ok \in BOOLEAN :
       analysis' = [analysis EXCEPT ![r].pc = "awaitBody", ![r].ok = ok]
  /\ UNCHANGED <<config, pc, locals, res, responsesSent, wire, seen, cancelled, path>>

\* the body is read: an error answer is reported, a report is returned
ClaudeBodyResolves(r) ==
  /\ analysis[r].pc = "awaitBody"
  /\ IF analysis[r].ok
     THEN \E report \in Reports : AnalyzeRespond(r, 200, "", report)
     ELSE AnalyzeRespond(r, 500, "Failed to analyze document", Absent)
  /\ UNCHANGED <<config, pc, locals, res, responsesSent, wire, seen, cancelled, path>>

\* reading the body rejects, or claudeResponse.json() raises
ClaudeBodyRejects(r) ==
  /\ analysis[r].pc = "awaitBody"
  /\ AnalyzeRespond(r, 500, "Failed to analyze document", Absent)
  /\ UNCHANGED <<config, pc, locals, res, responsesSent, wire, seen, cancelled, path>>

Handler(r) ==
  \/ OcrRequest(r)
  \/ SubmitRejects(r)
  \/ SubmitResolves(r)
  \/ SubmitTextResolves(r)
  \/ SubmitTextRejects(r)
  \/ SleepElapses(r)
  \/ PollRejects(r)
  \/ PollResolves(r)
  \/ PollJsonRejects(r)
  \/ PollJsonResolves(r)
  \/ Cancel(r)
  \/ AnalyzeRequest(r)
  \/ ClaudeRejects(r)
  \/ ClaudeResolves(r)
  \/ ClaudeBodyResolves(r)
  \/ ClaudeBodyRejects(r)

\* One invocation of the handler, followed from its request to its response.
Next == Handler(1)

Spec == Init /\ [][Next]_vars

\* A part of the provider's answers that keeps every kind of answer: an
\* accepted and a refused submit, with and without a reference; every poll
\* status, a null and an unparsable body; with and without content.
ProviderSample(r) ==
  /\ submitResp[r].status \in {0, 202, 500}
  /\ submitResp[r].body = ""
  /\ submitResp[r].opLocation \in {NoRef, 1}
  /\ pollResp[r].http \in {0, 200}
  /\ pollResp[r].body.error = Absent
  /\ pollResp[r].body.content \in {NoAnalyzeResult, "", TextOf(1)}

\* The steps of an invocation that its environment owes it: every provider
\* request returns or fails, every body read ends, every timer runs out.
\* The arrival of a request and the caller's disconnect are owed to nobody.
OcrProgress(r) ==
  \/ SubmitRejects(r)
  \/ SubmitResolves(r)
  \/ SubmitTextResolves(r)
  \/ SubmitTextRejects(r)
  \/ SleepElapses(r)
  \/ PollRejects(r)
  \/ PollResolves(r)
  \/ PollJsonRejects(r)
  \/ PollJsonResolves(r)

\* One /api/ocr invocation followed to its end, all 120 queries included,
\* against the sampled answers.
NextLive ==
  \/ OcrRequest(1) /\ ProviderSample(1)'
  \/ SubmitRejects(1) /\ ProviderSample(1)'
  \/ SubmitResolves(1) /\ ProviderSample(1)'
  \/ SubmitTextResolves(1) /\ ProviderSample(1)'
  \/ SubmitTextRejects(1) /\ ProviderSample(1)'
  \/ SleepElapses(1) /\ ProviderSample(1)'
  \/ PollRejects(1) /\ ProviderSample(1)'
  \/ PollResolves(1) /\ ProviderSample(1)'
  \/ PollJsonRejects(1) /\ ProviderSample(1)'
  \/ PollJsonResolves(1) /\ ProviderSample(1)'
  \/ Cancel(1)

SpecLive ==
  Init /\ [][NextLive]_vars /\ WF_vars(OcrProgress(1) /\ ProviderSample(1)')

\* Two /api/ocr invocations in flight at once, their steps interleaved in
\* every order. To keep the product of the two explorable, each request is
\* followed for MaxConcPolls status queries and the provider's answers are
\* drawn from a part of the value sets.
ConcInputs(r) ==
  /\ pollsSent[r] <= MaxConcPolls
  /\ submitResp[r].status \in {0, 202, 500}
  /\ submitResp[r].body = ""
  /\ pollResp[r].http \in {0, 200}
  /\ pollResp[r].body.error = Absent
  /\ pollResp[r].body.content \in {NoAnalyzeResult, "", TextOf(1)}

NextConc ==
  \E r \in Reqs :
    \/ OcrRequest(r) /\ ConcInputs(r)'
    \/ SubmitRejects(r) /\ ConcInputs(r)'
    \/ SubmitResolves(r) /\ ConcInputs(r)'
    \/ SubmitTextResolves(r) /\ ConcInputs(r)'
    \/ SubmitTextRejects(r) /\ ConcInputs(r)'
    \/ SleepElapses(r) /\ ConcInputs(r)'
    \/ PollRejects(r) /\ ConcInputs(r)'
    \/ PollResolves(r) /\ ConcInputs(r)'
    \/ PollJsonRejects(r) /\ ConcInputs(r)'
    \/ PollJsonResolves(r) /\ ConcInputs(r)'

SpecConc == Init /\ [][NextConc]_vars

\* ---------------------------------------------------------------- claims
NonTerminal(status) == status \notin {"succeeded", "failed"}

Polling(r) == pc[r] \in {"sleeping", "awaitPoll", "awaitJson"} \/ pollsSent[r] > 0
SubmitAnswered(r) == submitResp[r].status # 0
SubmitErrors == {"submitTransport", "submitRejected", "submitMalformed"}

\* C1: when every poll response carries a non-terminal status, the loop sends
\* exactly 120 status queries, never a 121st, and then answers 504
\* 'Azure DI timeout'.
C1_TimeoutAfterExactly120Queries ==
  \A r \in Reqs :
    /\ pollsSent[r] <= 120
    /\ runningSeen[r] = 120 => pc[r] \in {"awaitJson", "done"}
    /\ (runningSeen[r] = 120 /\ pc[r] = "done") =>
          /\ res[r].code = 504
          /\ res[r].error = "Azure DI timeout"
          /\ pollsSent[r] = 120
          /\ inFlight[r] = 0
    /\ res[r].code = 504 => (runningSeen[r] = 120 /\ pollsSent[r] = 120)

C1_Witness ==
  /\ pc[1] = "done"
  /\ runningSeen[1] = 120
  /\ pollsSent[1] = 120
  /\ res[1].code = 504

\* C2: k-1 non-terminal responses followed by 'succeeded' give the success
\* response carrying analyzeResult.content of that last response, after
\* exactly k status queries; no query follows the terminal response.
C2_SucceededCarriesLastResult ==
  \A r \in Reqs :
    /\ lastStatus[r] = "succeeded" => pc[r] \in {"awaitJson", "done"}
    /\ (lastStatus[r] = "succeeded" /\ pc[r] = "done") =>
          LET c == pollResp[r].body.content IN
          /\ res[r].code = 200
          /\ IF c \in {NoAnalyzeResult, Absent, ""} THEN res[r].text = "" ELSE res[r].text = c
          /\ pollsSent[r] = runningSeen[r] + 1
          /\ pollsSent[r] <= 120
          /\ inFlight[r] = 0
    /\ res[r].code = 200 => lastStatus[r] = "succeeded"

C2_Witness ==
  /\ pc[1] = "done"
  /\ runningSeen[1] = 2
  /\ pollsSent[1] = 3
  /\ lastStatus[1] = "succeeded"
  /\ res[1].code = 200
  /\ res[1].text = "Page 1: hello"

\* C3: a 'failed' poll response ends polling at once: no further query, the
\* loop counter is not advanced, and the response is 500 'Azure DI failed'
\* with the provider's body as details, unchanged.
C3_FailedHaltsWithDetail ==
  \A r \in Reqs :
    /\ lastStatus[r] = "failed" => pc[r] \in {"awaitJson", "done"}
    /\ (lastStatus[r] = "failed" /\ pc[r] = "done") =>
          /\ res[r].code = 500
          /\ res[r].error = "Azure DI failed"
          /\ res[r].data = pollResp[r].body
          /\ res[r].data.status = "failed"
          /\ pollsSent[r] = runningSeen[r] + 1
          /\ i[r] = runningSeen[r]
          /\ inFlight[r] = 0

C3_Witness ==
  /\ pc[1] = "done"
  /\ lastStatus[1] = "failed"
  /\ pollsSent[1] = 2
  /\ i[1] = 1
  /\ res[1].error = "Azure DI failed"
  /\ res[1].data.error = "InternalServerError"

\* C4: a poll response whose JSON object has a status other than 'succeeded'
\* and 'failed' (or no status field) is treated as running: classifying it
\* sends no response and goes to the next wait while attempts remain, and
\* ends only in the timeout once the 120th attempt is used up.
C4_OtherStatusIsRunning ==
  [][\A r \in Reqs :
       ( /\ pc[r] = "awaitJson"
         /\ pc'[r] # "awaitJson"
         /\ pollResp[r].body.kind = "object"
         /\ NonTerminal(pollResp[r].body.status) ) =>
       /\ i'[r] = i[r] + 1
       /\ IF i[r] + 1 < 120
          THEN pc'[r] = "sleeping" /\ responsesSent'[r] = 0 /\ res'[r] = NoResponse
          ELSE pc'[r] = "done" /\ res'[r].code = 504]_vars

C4_Witness ==
  /\ pc[1] = "sleeping"
  /\ lastStatus[1] = Absent
  /\ i[1] = 2
  /\ runningSeen[1] = 2
  /\ responsesSent[1] = 0

\* C5: the request goes on to polling, with the reference the provider gave,
\* if and only if the submit was answered 202 with an operation-location;
\* otherwise it ends in the submission error of its kind: a transport failure
\* in 500 'Azure DI exception', a status other than 202 in 500 'Azure DI
\* submit failed' with the provider's status and body, 202 without a
\* reference in 500 'Missing Operation-Location'.
C5_SubmitOutcomes ==
  \A r \in Reqs :
    LET sr == submitResp[r] IN
    /\ Polling(r) => (sr.status = 202 /\ sr.opLocation \in Refs /\ opLocation[r] = sr.opLocation)
    /\ (sr.status = 202 /\ sr.opLocation # NoRef) => (Polling(r) /\ path[r] \notin SubmitErrors)
    /\ path[r] = "submitTransport" =>
          /\ pc[r] = "done" /\ ~Polling(r)
          /\ res[r].code = 500 /\ res[r].error = "Azure DI exception"
    /\ (SubmitAnswered(r) /\ sr.status # 202) =>
          /\ pc[r] \in {"awaitText", "done"} /\ ~Polling(r)
          /\ path[r] \in {"none", "submitRejected", "submitTransport"}
          /\ path[r] = "submitRejected" =>
                /\ res[r].code = 500 /\ res[r].error = "Azure DI submit failed"
                /\ res[r].status = sr.status /\ res[r].details = sr.body
    /\ (sr.status = 202 /\ sr.opLocation = NoRef) =>
          /\ pc[r] = "done" /\ ~Polling(r) /\ path[r] = "submitMalformed"
          /\ res[r].code = 500 /\ res[r].error = "Missing Operation-Location"

C5_Witness ==
  /\ pc[1] = "sleeping"
  /\ submitResp[1].status = 202
  /\ submitResp[1].opLocation = 2
  /\ opLocation[1] = 2

\* C6: an invocation that gets as far as the submit sends exactly one submit
\* request; no path sends a second one, and a submission failure ends the
\* invocation with its response and without any further provider request.
C6_OneSubmitNoRetry ==
  \A r \in Reqs :
    /\ submitsSent[r] <= 1
    /\ (pc[r] # "idle" /\ path[r] \notin {"missingEnv", "noFile"}) => submitsSent[r] = 1
    /\ path[r] \in SubmitErrors =>
          /\ pc[r] = "done"
          /\ submitsSent[r] = 1
          /\ pollsSent[r] = 0
          /\ responsesSent[r] = 1

C6_Witness ==
  /\ pc[1] = "done"
  /\ path[1] = "submitTransport"
  /\ submitsSent[1] = 1
  /\ res[1].error = "Azure DI exception"

\* C7: the status code of every response: no uploaded file gives 400;
\* submission and transport errors give 500; the timeout, and nothing else,
\* gives 504; a successful analysis gives 200 with a text.
C7_StatusCodeMapping ==
  \A r \in Reqs :
    pc[r] = "done" =>
      /\ ~file[r] => res[r].code = 400
      /\ path[r] \in SubmitErrors \cup {"pollTransport", "pollBadBody"} => res[r].code = 500
      /\ path[r] = "timedOut" <=> res[r].code = 504
      /\ path[r] = "succeeded" => (res[r].code = 200 /\ res[r].text # Absent)

\* The failure class an invocation ended in, and the class a caller reads
\* off the status code and error tag of the response. 500 'Azure DI
\* exception' is what a transport failure of the submit produces, so a
\* caller can only read it as "could not be submitted".
FailureClass(branch) ==
  IF branch \in SubmitErrors THEN "notSubmitted"
  ELSE IF branch = "providerFailed" THEN "notProcessed"
  ELSE IF branch = "timedOut" THEN "notInTime"
  ELSE "other"

CallerReads(response) ==
  IF response.code = 504 /\ response.error = "Azure DI timeout" THEN "notInTime"
  ELSE IF response.code = 500 /\ response.error = "Azure DI failed" THEN "notProcessed"
  ELSE IF response.code = 500 /\ response.error \in
            {"Azure DI exception", "Azure DI submit failed", "Missing Operation-Location"}
       THEN "notSubmitted"
  ELSE "other"

\* C8: the status code and error tag of the response tell the caller which
\* of "could not be submitted", "the provider could not process it" and "did
\* not finish in time" happened, and no other failure answers with the
\* status code and error tag of one of these.
C8_FailureClassesDistinguishable ==
  \A r \in Reqs : pc[r] = "done" => CallerReads(res[r]) = FailureClass(path[r])

C10_CancelStopsPolling ==
  [][\A r \in Reqs :
       (cancelled[r] /\ pc[r] = "sleeping") => pollsSent'[r] = pollsSent[r]]_vars


\* C11: an invocation that has ended has sent exactly one response and one
\* that has not ended has sent none; after the response no provider request
\* is sent and the response never changes; the timeout is answered only
\* when none of the poll responses carried a terminal status.
C11_OneOutcomeAbsorbing ==
  /\ [](\A r \in Reqs :
          /\ responsesSent[r] <= 1
          /\ pc[r] = "done" <=> responsesSent[r] = 1
          /\ responsesSent[r] = 0 <=> res[r] = NoResponse
          /\ res[r].code = 504 =>
                (NonTerminal(lastStatus[r]) /\ runningSeen[r] = pollsSent[r] /\ inFlight[r] = 0))
  /\ [][\A r \in Reqs :
          responsesSent[r] = 1 =>
            /\ res'[r] = res[r]
            /\ responsesSent'[r] = 1
            /\ submitsSent'[r] = submitsSent[r]
            /\ pollsSent'[r] = pollsSent[r]
            /\ pc'[r] = "done"]_vars

C11_Witness ==
  /\ pc[1] = "done"
  /\ responsesSent[1] = 1
  /\ res[1].code = 504
  /\ runningSeen[1] = 120
  /\ lastStatus[1] = "notStarted"


\* Everything that belongs to one invocation.
ReqState(r) ==
  <<pc[r], file[r], submitResp[r], opLocation[r], i[r], finalData[r], pollResp[r], res[r],
    responsesSent[r], submitsSent[r], pollsSent[r], inFlight[r], pollTarget[r], waited[r],
    runningSeen[r], lastStatus[r], lastHttp[r], path[r]>>

\* The response an invocation gives when it runs alone, as a function of its
\* own input and of the provider's answers to it.
OwnOutcome(r) ==
  IF MissingEnv THEN MissingEnvResponse
  ELSE IF ~file[r] THEN NoFileResponse
  ELSE IF path[r] = "submitTransport" THEN ExceptionResponse("FetchError")
  ELSE IF submitResp[r].status # 202
       THEN SubmitFailedResponse(submitResp[r].status, submitResp[r].body)
  ELSE IF submitResp[r].opLocation = NoRef THEN MissingOpLocationResponse
  ELSE IF lastStatus[r] = "rejected" THEN ExceptionResponse("FetchError")
  ELSE IF lastStatus[r] = "invalid" THEN ExceptionResponse("SyntaxError")
  ELSE IF lastStatus[r] = "null" THEN ExceptionResponse("TypeError")
  ELSE IF lastStatus[r] = "failed" THEN FailedResponse(pollResp[r].body)
  ELSE IF lastStatus[r] = "succeeded"
       THEN LET c == pollResp[r].body.content IN
            TextResponse(IF c \in {NoAnalyzeResult, Absent, ""} THEN "" ELSE c)
  ELSE TimeoutResponse

\* C12: with two requests in flight in any interleaving, each request polls
\* only the reference its own submit was given, its attempt counter counts
\* only its own non-terminal responses, a step of one request changes
\* nothing of the other, and its response is the one it gives alone for the
\* same provider answers.
C12_ConcurrentInvocationsIndependent ==
  /\ [](\A r \in Reqs :
          /\ pollsSent[r] > 0 =>
                /\ pollTarget[r] = submitResp[r].opLocation
                /\ opLocation[r] = submitResp[r].opLocation
                /\ pollTarget[r] \in Refs
          /\ pc[r] \in {"sleeping", "awaitPoll"} =>
                /\ i[r] = runningSeen[r]
                /\ pollsSent[r] = i[r] + (IF pc[r] = "awaitPoll" THEN 1 ELSE 0)
          /\ pc[r] = "done" => res[r] = OwnOutcome(r))
  /\ [][\A r, s \in Reqs :
          (r # s /\ ReqState(r)' # ReqState(r)) => ReqState(s)' = ReqState(s)]_vars

C12_Witness ==
  /\ pc[1] = "done"
  /\ path[1] = "succeeded"
  /\ pollsSent[1] = 2
  /\ opLocation[1] = 1
  /\ pc[2] = "awaitPoll"
  /\ pollsSent[2] = 1
  /\ opLocation[2] = 2
  /\ pollTarget[2] = 2


\* C13: no environment variable is required. With the endpoint, the key and
\* ANTHROPIC_API_KEY unset, an /api/ocr request that carries a file is not
\* answered 'Missing Azure DI env vars', and an /api/analyze request that
\* carries text and a key in its body is not answered 'No API key provided'.
C13_NoEnvVarsRequired ==
  \A r \in Reqs :
    /\ (pc[r] = "done" /\ MissingEnv /\ file[r]) =>
          ~(res[r].code = 500 /\ res[r].error = "Missing Azure DI env vars")
    /\ (analysis[r].pc = "done" /\ analysis[r].apiKey = Unset
          /\ ~NoText(analysis[r].text) /\ analysis[r].bodyKey # Absent) =>
          ~(analysis[r].code = 400 /\ analysis[r].error = "No API key provided")


\* The invocation ended on a status query that failed in transport or whose
\* body could not be used.
PollAborted(r) == path[r] \in {"pollTransport", "pollBadBody"}

\* C14 as stated: a transport failure or an unparsable body during a status
\* query aborts the operation at that attempt, is not retried, and the
\* outcome returned is the one of a provider-reported failure.
C14_PollFailureAsProviderFailure ==
  \A r \in Reqs :
    PollAborted(r) =>
      /\ pc[r] = "done"
      /\ pollsSent[r] = runningSeen[r] + 1
      /\ res[r].code = FailedResponse(pollResp[r].body).code
      /\ res[r].error = FailedResponse(pollResp[r].body).error

\* C14, amended: a transport failure or an unparsable body during a status
\* query aborts the operation at that first failing attempt, with no later
\* query and no retry; the response has the HTTP code of a provider-reported
\* failure (500) but not its error tag: it carries 'Azure DI exception' and
\* the text of the exception, where a provider failure carries 'Azure DI
\* failed' and the provider's payload.
C14_PollFailureAborts ==
  /\ [](\A r \in Reqs :
          /\ (lastStatus[r] = "rejected"
                \/ (lastStatus[r] \in {"null", "invalid"} /\ pc[r] # "awaitJson")) <=> PollAborted(r)
          /\ PollAborted(r) =>
                /\ pc[r] = "done"
                /\ inFlight[r] = 0
                /\ pollsSent[r] = runningSeen[r] + 1
                /\ res[r].code = 500
                /\ res[r].error = "Azure DI exception"
                /\ res[r].error # FailedResponse(pollResp[r].body).error
                /\ res[r].details \in {"FetchError", "SyntaxError", "TypeError"}
                /\ res[r].details = "FetchError" <=> path[r] = "pollTransport")
  /\ [][\A r \in Reqs :
          PollAborted(r) =>
            /\ pollsSent'[r] = pollsSent[r]
            /\ submitsSent'[r] = submitsSent[r]
            /\ res'[r] = res[r]
            /\ PollAborted(r)']_vars

C14_Witness ==
  /\ pc[1] = "done"
  /\ path[1] = "pollTransport"
  /\ pollsSent[1] = 3
  /\ runningSeen[1] = 2
  /\ res[1] = ExceptionResponse("FetchError")


\* C15: if every provider request eventually returns or fails and every wait
\* eventually elapses, every /api/ocr request eventually sends its response,
\* having made at most 1 submit request and at most 120 status queries.
C15_EveryInvocationTerminates ==
  /\ [](\A r \in Reqs : submitsSent[r] <= 1 /\ pollsSent[r] <= MaxAttempts)
  /\ \A r \in Reqs :
        (pc[r] # "idle") ~> (responsesSent[r] = 1 /\ res[r] # NoResponse)

C15_Witness ==
  /\ responsesSent[1] = 1
  /\ res[1] # NoResponse
  /\ submitsSent[1] = 1
  /\ pollsSent[1] = MaxAttempts
  /\ path[1] = "providerFailed"


\* C16 as stated: every suspension lasts 1500 ms, a suspension occurs only
\* between two consecutive status queries, and the all-running path is
\* suspended for 180000 ms in total.
C16_SuspensionsOnlyBetweenQueries ==
  \A r \in Reqs :
    /\ waited[r] % SleepMs = 0
    /\ pc[r] = "sleeping" => (pollsSent[r] >= 1 /\ pollsSent[r] < MaxAttempts)
    /\ path[r] = "timedOut" => waited[r] = 180000

\* C16, amended: every suspension lasts exactly 1500 ms whatever the attempt
\* index; one suspension precedes every status query, the first query
\* included (it lies between the submit and the first query), and none
\* follows the last query; on the all-running path there are 120 suspensions,
\* 180000 ms in total.
C16_FixedWaitBeforeEveryQuery ==
  /\ [](\A r \in Reqs :
          /\ waited[r] = SleepMs * pollsSent[r]
          /\ pc[r] = "sleeping" => (pollsSent[r] = i[r] /\ i[r] < MaxAttempts)
          /\ path[r] = "timedOut" => (pollsSent[r] = 120 /\ waited[r] = 180000))
  /\ [][\A r \in Reqs :
          waited'[r] # waited[r] =>
            /\ pc[r] = "sleeping"
            /\ waited'[r] = waited[r] + 1500
            /\ pollsSent'[r] = pollsSent[r] + 1]_vars

C16_Witness ==
  /\ path[1] = "timedOut"
  /\ waited[1] = 180000
  /\ pollsSent[1] = 120
  /\ i[1] = 120


\* C17: the flow is validate, submit, poll, respond. No provider request is
\* made for a request without a file or with the configuration missing; a
\* status query is made only after the submit of the same invocation was
\* answered with the accepted status and an operation reference, before any
\* response is sent; and every status query goes to that reference.
C17_ValidateSubmitPollRespond ==
  /\ [](\A r \in Reqs :
          /\ (pc[r] # "idle" /\ (MissingEnv \/ ~file[r])) =>
                (pc[r] = "done" /\ submitsSent[r] = 0 /\ pollsSent[r] = 0)
          /\ submitResp[r] # NoSubmitResp => submitsSent[r] = 1
          /\ pollsSent[r] > 0 =>
                /\ submitsSent[r] = 1
                /\ submitResp[r].status = 202
                /\ submitResp[r].opLocation \in Refs
                /\ pollTarget[r] = submitResp[r].opLocation)
  /\ [][\A r \in Reqs :
          /\ submitsSent'[r] # submitsSent[r] =>
                (pc[r] = "idle" /\ ~MissingEnv /\ file'[r] /\ pollsSent[r] = 0)
          /\ pollsSent'[r] # pollsSent[r] =>
                /\ responsesSent[r] = 0
                /\ submitResp[r].status = 202
                /\ pollTarget'[r] = submitResp[r].opLocation
          /\ responsesSent'[r] # responsesSent[r] => inFlight'[r] = 0]_vars

C17_Witness ==
  /\ pc[1] = "awaitPoll"
  /\ submitResp[1].status = 202
  /\ submitResp[1].opLocation = 2
  /\ pollsSent[1] = 2
  /\ pollTarget[1] = 2
  /\ responsesSent[1] = 0


\* C18: a terminal status on the last allowed query, the 120th, is honoured:
\* 'succeeded' there answers 200 with the text of that response, 'failed'
\* there answers the provider failure; 504 is answered only when all 120
\* responses were non-terminal, and then always.
C18_LastQueryHonoured ==
  \A r \in Reqs :
    /\ (pc[r] = "done" /\ pollsSent[r] = MaxAttempts /\ lastStatus[r] = "succeeded") =>
          (path[r] = "succeeded" /\ res[r] = TextResponse(ExtractText(pollResp[r].body)))
    /\ (pc[r] = "done" /\ pollsSent[r] = MaxAttempts /\ lastStatus[r] = "failed") =>
          (path[r] = "providerFailed" /\ res[r] = FailedResponse(pollResp[r].body))
    /\ res[r].code = 504 <=> (pc[r] = "done" /\ runningSeen[r] = MaxAttempts)
    /\ res[r].code = 504 => pollsSent[r] = MaxAttempts

C18_Witness ==
  /\ pc[1] = "done"
  /\ pollsSent[1] = 120
  /\ runningSeen[1] = 119
  /\ lastStatus[1] = "succeeded"
  /\ res[1] = TextResponse(TextOf(1))

\* The poll statuses the handler neither returns nor breaks on.
RunningStatuses == PollStatuses \ {"succeeded", "failed"}

\* C19: the HTTP status of a poll response is not looked at. A response with
\* an error HTTP status whose JSON body has no 'succeeded' or 'failed'
\* status uses up one attempt and polling goes on; when it was the last
\* attempt the answer is the 504 timeout, never an error answer.
C19_PollHttpStatusIgnored ==
  /\ [](\A r \in Reqs :
          (pc[r] = "done" /\ lastHttp[r] \in {404, 500} /\ lastStatus[r] \in RunningStatuses) =>
            (path[r] = "timedOut" /\ res[r] = TimeoutResponse /\ runningSeen[r] = MaxAttempts))
  /\ [][\A r \in Reqs :
          (/\ pc[r] = "awaitJson" /\ pc'[r] # "awaitJson"
           /\ pollResp[r].http \in {404, 500}
           /\ pollResp[r].body.kind = "object"
           /\ pollResp[r].body.status \in RunningStatuses) =>
            /\ i'[r] = i[r] + 1
            /\ IF i[r] + 1 < MaxAttempts
               THEN pc'[r] = "sleeping" /\ responsesSent'[r] = 0
               ELSE res'[r] = TimeoutResponse]_vars

C19_Witness ==
  /\ pc[1] = "done"
  /\ lastHttp[1] = 500
  /\ lastStatus[1] = Absent
  /\ runningSeen[1] = 120
  /\ res[1] = TimeoutResponse

\* C20: a 'succeeded' poll response without result content (analyzeResult
\* absent, content absent, or content empty) is answered 200 with the empty
\* text, not with an error and not with the timeout.
C20_SucceededWithoutContent ==
  \A r \in Reqs :
    (/\ pc[r] = "done"
     /\ lastStatus[r] = "succeeded"
     /\ pollResp[r].body.content \in {NoAnalyzeResult, Absent, ""}) =>
      /\ path[r] = "succeeded"
      /\ res[r].code = 200
      /\ res[r].text = ""
      /\ res[r].error = ""

C20_Witness ==
  /\ pc[1] = "done"
  /\ lastStatus[1] = "succeeded"
  /\ pollResp[1].body.content = NoAnalyzeResult
  /\ res[1] = TextResponse("")

====
